---- MODULE Spec2Model ----
(***************************************************************************)
(* The RESP stack-machine parser of protocol/redis/resp.go.                *)
(*                                                                         *)
(* A byte is a one-character string, a byte slice a sequence of them.  The *)
(* parser's stack is a sequence of frames; a frame's closure is the name   *)
(* of the function that pushed it together with the variables it captured. *)
(* One step of the model is one iteration of the loop of Run.              *)
(***************************************************************************)
EXTENDS Integers, Sequences, FiniteSets, TLC

\* ------------------------------------------------------------------ bytes

CR == "\r"
LF == "\n"
CRLF == <<CR, LF>>

tagStatus == "+"
tagError == "-"
tagInt == ":"
tagBulk == "$"
tagArray == "*"

stackLimit == 8

\* ParserOptions.BulkCaptureLimit as configured for the runs checked here
BulkCaptureLimit == 6

Digits == <<"0", "1", "2", "3", "4", "5", "6", "7", "8", "9">>

IsDigit(b) == \E i \in 1..10 : Digits[i] = b

DigitVal(b) == (CHOOSE i \in 1..10 : Digits[i] = b) - 1

\* ------------------------------------------------------------ error values

nil == "nil"
ErrShortRead == "ErrShortRead"
ProtocolErr == "ProtocolErr"
RecursionLimitErr == "RecursionLimitErr"
ErrSyntax == "strconv.ErrSyntax"
\* a run-time panic of the Go program (failed type assertion, makeslice)
Panic == "panic"

\* --------------------------------------------- interface{} values (results)
\* t is the dynamic type of the value held by a result slot

VNil == [t |-> "nil", n |-> 0, s |-> <<>>, a |-> <<>>]
VString(s) == [t |-> "string", n |-> 0, s |-> s, a |-> <<>>]
VError(s) == [t |-> "error", n |-> 0, s |-> s, a |-> <<>>]
VInt(n) == [t |-> "int", n |-> n, s |-> <<>>, a |-> <<>>]
VBytes(s) == [t |-> "[]byte", n |-> 0, s |-> s, a |-> <<>>]
VSlice(a) == [t |-> "[]interface{}", n |-> 0, s |-> <<>>, a |-> a]

\* ------------------------------------------------------------- strconv.Atoi
\* The lines the model feeds have at most four digits, far inside the 64-bit
\* int, so the range error of Atoi is never taken and is left out.

RECURSIVE DecimalValue(_)
DecimalValue(s) ==
    IF s = <<>> THEN 0
    ELSE 10 * DecimalValue(SubSeq(s, 1, Len(s) - 1)) + DigitVal(s[Len(s)])

Atoi(s) ==
    LET signed == s # <<>> /\ s[1] \in {"+", "-"}
        digits == IF signed THEN Tail(s) ELSE s
        neg == signed /\ s[1] = "-"
    IN  IF digits = <<>> \/ \E i \in 1..Len(digits) : ~IsDigit(digits[i])
        THEN [val |-> 0, err |-> ErrSyntax]
        ELSE LET v == IF neg THEN -DecimalValue(digits) ELSE DecimalValue(digits)
             IN  [val |-> v, err |-> nil]

\* ----------------------------------------------------------- reader.Reader
\* The byte source: buf is the whole stream, of which the first avail bytes
\* have arrived; pos bytes have been consumed or discarded.  A discard past
\* the arrived bytes leaves pos > avail: the bytes are skipped as they come.

Buffered(avail, pos) == IF avail > pos THEN avail - pos ELSE 0

ReadN(buf, avail, pos, n) ==
    IF Buffered(avail, pos) >= n
    THEN [out |-> SubSeq(buf, pos + 1, pos + n), pos |-> pos + n, err |-> nil]
    ELSE [out |-> SubSeq(buf, pos + 1, avail), pos |-> pos, err |-> ErrShortRead]

LineEnds(buf, avail, pos) ==
    {i \in (pos + 1)..(avail - 1) : buf[i] = CR /\ buf[i + 1] = LF}

ReadLine(buf, avail, pos) ==
    LET ends == LineEnds(buf, avail, pos)
    IN  IF ends = {}
        THEN [out |-> <<>>, pos |-> pos, err |-> ErrShortRead]
        ELSE LET e == CHOOSE i \in ends : \A j \in ends : i <= j
             IN  [out |-> SubSeq(buf, pos + 1, e - 1), pos |-> e + 1, err |-> nil]

Discard(pos, n) == pos + n

\* ------------------------------------------------------------------ frames

Frame(run, asError, accum, n) ==
    [run |-> run, asError |-> asError, accum |-> accum, n |-> n, result |-> VNil]

\* the root frame: no run function
Root == Frame("", FALSE, <<>>, 0)

Result(stack) == stack[Len(stack)].result

push(stack, f) == Append(stack, f)

\* pop handing the result to the root frame, whatever frame is below
pop_IntoRoot(stack, result) ==
    LET s == SubSeq(stack, 1, Len(stack) - 1)
    IN  [s EXCEPT ![1].result = result]

pop(stack, result) ==
    LET s == SubSeq(stack, 1, Len(stack) - 1)
    IN  [s EXCEPT ![Len(s)].result = result]

startParseValue(stack) == push(stack, Frame("startParseValue", FALSE, <<>>, 0))

startParseSimpleString(stack, asError) ==
    push(stack, Frame("startParseSimpleString", asError, <<>>, 0))

startParseInt(stack) == push(stack, Frame("startParseInt", FALSE, <<>>, 0))

startParseBulk(stack) ==
    startParseInt(push(stack, Frame("startParseBulk", FALSE, <<>>, 0)))

startParseBulkN(stack, accum, n) ==
    push(stack, Frame("startParseBulkN", FALSE, accum, n))

startParseArray(stack) ==
    startParseInt(push(stack, Frame("startParseArray", FALSE, <<>>, 0)))

startParseNArrayFields(stack, n) ==
    startParseValue(push(stack, Frame("startParseNArrayFields", FALSE, <<>>, n)))

\* ------------------------------------------------- the frames' run closures
\* Each takes the parser and reader state p = [stack, pos, ndisc] seen by the
\* closure and the stream, and gives the state it leaves with the error it
\* returns.  ndisc counts the bytes handed to Discard.

Return(stack, pos, ndisc, err) ==
    [stack |-> stack, pos |-> pos, ndisc |-> ndisc, err |-> err]

\* runValue refusing a stack that has reached the limit
runValue_LimitReached(p, buf, avail) ==
    IF Len(p.stack) >= stackLimit
    THEN Return(p.stack, p.pos, p.ndisc, RecursionLimitErr)
    ELSE LET rd == ReadN(buf, avail, p.pos, 1)
         IN  IF rd.err # nil
             THEN Return(p.stack, rd.pos, p.ndisc, rd.err)
             ELSE LET st == pop(p.stack, VNil)
                      tag == rd.out[1]
                  IN  CASE tag = tagStatus ->
                             Return(startParseSimpleString(st, FALSE), rd.pos, p.ndisc, nil)
                        [] tag = tagError ->
                             Return(startParseSimpleString(st, TRUE), rd.pos, p.ndisc, nil)
                        [] tag = tagInt ->
                             Return(startParseInt(st), rd.pos, p.ndisc, nil)
                        [] tag = tagBulk ->
                             Return(startParseBulk(st), rd.pos, p.ndisc, nil)
                        [] tag = tagArray ->
                             Return(startParseArray(st), rd.pos, p.ndisc, nil)
                        [] OTHER ->
                             Return(st, rd.pos, p.ndisc, ProtocolErr)

\* runValue reading the tag byte before it looks at the depth of the stack
runValue_ReadsFirst(p, buf, avail) ==
    LET rd == ReadN(buf, avail, p.pos, 1)
    IN  IF rd.err # nil
        THEN Return(p.stack, rd.pos, p.ndisc, rd.err)
        ELSE IF Len(p.stack) > stackLimit
        THEN Return(p.stack, rd.pos, p.ndisc, RecursionLimitErr)
        ELSE LET st == pop(p.stack, VNil)
                 tag == rd.out[1]
             IN  CASE tag = tagStatus ->
                        Return(startParseSimpleString(st, FALSE), rd.pos, p.ndisc, nil)
                   [] tag = tagError ->
                        Return(startParseSimpleString(st, TRUE), rd.pos, p.ndisc, nil)
                   [] tag = tagInt ->
                        Return(startParseInt(st), rd.pos, p.ndisc, nil)
                   [] tag = tagBulk ->
                        Return(startParseBulk(st), rd.pos, p.ndisc, nil)
                   [] tag = tagArray ->
                        Return(startParseArray(st), rd.pos, p.ndisc, nil)
                   [] OTHER ->
                        Return(st, rd.pos, p.ndisc, ProtocolErr)

\* runValue without the check of the depth of the stack
runValue_NoLimit(p, buf, avail) ==
    LET rd == ReadN(buf, avail, p.pos, 1)
    IN  IF rd.err # nil
        THEN Return(p.stack, rd.pos, p.ndisc, rd.err)
        ELSE LET st == pop(p.stack, VNil)
                 tag == rd.out[1]
             IN  CASE tag = tagStatus ->
                        Return(startParseSimpleString(st, FALSE), rd.pos, p.ndisc, nil)
                   [] tag = tagError ->
                        Return(startParseSimpleString(st, TRUE), rd.pos, p.ndisc, nil)
                   [] tag = tagInt ->
                        Return(startParseInt(st), rd.pos, p.ndisc, nil)
                   [] tag = tagBulk ->
                        Return(startParseBulk(st), rd.pos, p.ndisc, nil)
                   [] tag = tagArray ->
                        Return(startParseArray(st), rd.pos, p.ndisc, nil)
                   [] OTHER ->
                        Return(st, rd.pos, p.ndisc, ProtocolErr)

runValue(p, buf, avail) ==
    IF Len(p.stack) > stackLimit
    THEN Return(p.stack, p.pos, p.ndisc, RecursionLimitErr)
    ELSE LET rd == ReadN(buf, avail, p.pos, 1)
         IN  IF rd.err # nil
             THEN Return(p.stack, rd.pos, p.ndisc, rd.err)
             ELSE LET st == pop(p.stack, VNil)
                      tag == rd.out[1]
                  IN  CASE tag = tagStatus ->
                             Return(startParseSimpleString(st, FALSE), rd.pos, p.ndisc, nil)
                        [] tag = tagError ->
                             Return(startParseSimpleString(st, TRUE), rd.pos, p.ndisc, nil)
                        [] tag = tagInt ->
                             Return(startParseInt(st), rd.pos, p.ndisc, nil)
                        [] tag = tagBulk ->
                             Return(startParseBulk(st), rd.pos, p.ndisc, nil)
                        [] tag = tagArray ->
                             Return(startParseArray(st), rd.pos, p.ndisc, nil)
                        [] OTHER ->
                             Return(st, rd.pos, p.ndisc, ProtocolErr)

runSimpleString(p, buf, avail) ==
    LET rd == ReadLine(buf, avail, p.pos)
        asError == p.stack[Len(p.stack)].asError
    IN  IF rd.err # nil
        THEN Return(p.stack, rd.pos, p.ndisc, rd.err)
        ELSE IF asError
        THEN Return(pop(p.stack, VError(rd.out)), rd.pos, p.ndisc, nil)
        ELSE Return(pop(p.stack, VString(rd.out)), rd.pos, p.ndisc, nil)

\* runInt dropping the error of Atoi
runInt_IgnoresAtoiError(p, buf, avail) ==
    LET rd == ReadLine(buf, avail, p.pos)
    IN  IF rd.err # nil
        THEN Return(p.stack, rd.pos, p.ndisc, rd.err)
        ELSE Return(pop(p.stack, VInt(Atoi(rd.out).val)), rd.pos, p.ndisc, nil)

runInt(p, buf, avail) ==
    LET rd == ReadLine(buf, avail, p.pos)
    IN  IF rd.err # nil
        THEN Return(p.stack, rd.pos, p.ndisc, rd.err)
        ELSE LET i == Atoi(rd.out)
             IN  IF i.err # nil
                 THEN Return(p.stack, rd.pos, p.ndisc, i.err)
                 ELSE Return(pop(p.stack, VInt(i.val)), rd.pos, p.ndisc, nil)

\* runBulk capturing only the bulks shorter than the limit
runBulk_StrictLimit(p, buf, avail) ==
    LET r == Result(p.stack)
    IN  IF r.t # "int"
        THEN Return(p.stack, p.pos, p.ndisc, Panic)
        ELSE IF r.n < 0
        THEN Return(pop(p.stack, VNil), p.pos, p.ndisc, nil)
        ELSE IF r.n < BulkCaptureLimit
        THEN Return(startParseBulkN(pop(p.stack, VNil), <<>>, r.n), p.pos, p.ndisc, nil)
        ELSE Return(pop(p.stack, r), Discard(p.pos, r.n + 2), p.ndisc + r.n + 2, nil)

\* runBulk skipping a line terminator after a negative length
runBulk_NilSkipsTerminator(p, buf, avail) ==
    LET r == Result(p.stack)
    IN  IF r.t # "int"
        THEN Return(p.stack, p.pos, p.ndisc, Panic)
        ELSE IF r.n < 0
        THEN Return(pop(p.stack, VNil), Discard(p.pos, 2), p.ndisc + 2, nil)
        ELSE IF r.n <= BulkCaptureLimit
        THEN Return(startParseBulkN(pop(p.stack, VNil), <<>>, r.n), p.pos, p.ndisc, nil)
        ELSE Return(pop(p.stack, r), Discard(p.pos, r.n + 2), p.ndisc + r.n + 2, nil)

runBulk(p, buf, avail) ==
    LET r == Result(p.stack)
    IN  IF r.t # "int"
        THEN Return(p.stack, p.pos, p.ndisc, Panic)
        ELSE IF r.n < 0
        THEN Return(pop(p.stack, VNil), p.pos, p.ndisc, nil)
        ELSE IF r.n <= BulkCaptureLimit
        THEN Return(startParseBulkN(pop(p.stack, VNil), <<>>, r.n), p.pos, p.ndisc, nil)
        ELSE LET st == pop(p.stack, r)
                 len == Result(st)
             IN  IF len.t # "int"
                 THEN Return(st, p.pos, p.ndisc, Panic)
                 ELSE Return(st, Discard(p.pos, len.n + 2), p.ndisc + len.n + 2, nil)

\* runBulkN forgetting to reinstall itself after a short read
runBulkN_NoReinstall(p, buf, avail) ==
    LET f == p.stack[Len(p.stack)]
        rd == ReadN(buf, avail, p.pos, f.n)
    IN  IF rd.err # nil
        THEN Return(pop(p.stack, VNil), Discard(rd.pos, Len(rd.out)),
                    p.ndisc + Len(rd.out), rd.err)
        ELSE Return(pop(p.stack, VBytes(f.accum \o rd.out)),
                    Discard(rd.pos, 2), p.ndisc + 2, nil)

\* runBulkN keeping the bytes of a short read in the reader
runBulkN_NoDiscard(p, buf, avail) ==
    LET f == p.stack[Len(p.stack)]
        rd == ReadN(buf, avail, p.pos, f.n)
    IN  IF rd.err # nil
        THEN IF rd.err = ErrShortRead
             THEN LET accum == f.accum \o rd.out
                      st == pop(p.stack, VNil)
                  IN  Return(startParseBulkN(st, accum, f.n - Len(rd.out)),
                             rd.pos, p.ndisc, rd.err)
             ELSE Return(p.stack, rd.pos, p.ndisc, rd.err)
        ELSE Return(pop(p.stack, VBytes(f.accum \o rd.out)),
                    Discard(rd.pos, 2), p.ndisc + 2, nil)

runBulkN(p, buf, avail) ==
    LET f == p.stack[Len(p.stack)]
        rd == ReadN(buf, avail, p.pos, f.n)
    IN  IF rd.err # nil
        THEN IF rd.err = ErrShortRead
             THEN LET accum == f.accum \o rd.out
                      st == pop(p.stack, VNil)
                  IN  Return(startParseBulkN(st, accum, f.n - Len(rd.out)),
                             Discard(rd.pos, Len(rd.out)),
                             p.ndisc + Len(rd.out), rd.err)
             ELSE Return(p.stack, rd.pos, p.ndisc, rd.err)
        ELSE Return(pop(p.stack, VBytes(f.accum \o rd.out)),
                    Discard(rd.pos, 2), p.ndisc + 2, nil)

runArray(p, buf, avail) ==
    LET r == Result(p.stack)
    IN  IF r.t # "int"
        THEN Return(p.stack, p.pos, p.ndisc, Panic)
        ELSE LET st == pop(p.stack, VNil)
             IN  IF r.n < 0
                 THEN \* make([]interface{}, 0, n): makeslice: cap out of range
                      Return(st, p.pos, p.ndisc, Panic)
                 ELSE LET made == [st EXCEPT ![Len(st)].result = VSlice(<<>>)]
                      IN  Return(startParseNArrayFields(made, r.n),
                                 p.pos, p.ndisc, nil)

runNArrayFields(p, buf, avail) ==
    LET f == p.stack[Len(p.stack)]
        result == Result(p.stack)
        below == p.stack[Len(p.stack) - 1].result
    IN  IF below.t # "[]interface{}"
        THEN Return(p.stack, p.pos, p.ndisc, Panic)
        ELSE LET st == pop(p.stack, VSlice(Append(below.a, result)))
             IN  IF f.n > 1
                 THEN Return(startParseNArrayFields(st, f.n - 1), p.pos, p.ndisc, nil)
                 ELSE Return(st, p.pos, p.ndisc, nil)

\* p.stack[len(p.stack)-1].run()
runTop(p, buf, avail) ==
    LET run == p.stack[Len(p.stack)].run
    IN  CASE run = "startParseValue" -> runValue(p, buf, avail)
          [] run = "startParseSimpleString" -> runSimpleString(p, buf, avail)
          [] run = "startParseInt" -> runInt(p, buf, avail)
          [] run = "startParseBulk" -> runBulk(p, buf, avail)
          [] run = "startParseBulkN" -> runBulkN(p, buf, avail)
          [] run = "startParseArray" -> runArray(p, buf, avail)
          [] run = "startParseNArrayFields" -> runNArrayFields(p, buf, avail)

\* Run as a function: the loop to its return
RECURSIVE RunToReturn(_, _, _)
RunToReturn(p, buf, avail) ==
    IF Len(p.stack) = 1
    THEN Return(p.stack, p.pos, p.ndisc, nil)
    ELSE LET q == runTop(p, buf, avail)
         IN  IF q.err # nil THEN q ELSE RunToReturn(q, buf, avail)

\* NewParser: the stack it builds before it calls Reset
NewParser == <<Root>>

\* Reset forgetting to truncate the stack
ResetStack_NoTruncate(stack) == startParseValue(stack)

\* Reset
ResetStack(stack) == startParseValue(SubSeq(stack, 1, 1))

\* ------------------------------------------------------- the wire encoding
\* What a peer sends for a value: used to build the streams given to the parser.

RECURSIVE NatToDec(_)
NatToDec(n) ==
    IF n < 10 THEN <<Digits[n + 1]>>
    ELSE NatToDec(n \div 10) \o <<Digits[(n % 10) + 1]>>

Itoa(n) == IF n < 0 THEN <<"-">> \o NatToDec(-n) ELSE NatToDec(n)

RECURSIVE Encode(_)
RECURSIVE EncodeAll(_)
Encode(v) ==
    CASE v.t = "string" -> <<tagStatus>> \o v.s \o CRLF
      [] v.t = "error" -> <<tagError>> \o v.s \o CRLF
      [] v.t = "int" -> <<tagInt>> \o Itoa(v.n) \o CRLF
      [] v.t = "[]byte" -> <<tagBulk>> \o Itoa(Len(v.s)) \o CRLF \o v.s \o CRLF
      [] v.t = "nil" -> <<tagBulk>> \o Itoa(-1) \o CRLF
      [] v.t = "[]interface{}" -> <<tagArray>> \o Itoa(Len(v.a)) \o CRLF \o EncodeAll(v.a)
EncodeAll(vs) ==
    IF vs = <<>> THEN <<>> ELSE Encode(Head(vs)) \o EncodeAll(Tail(vs))

\* k arrays of count 1 nested directly inside one another around one integer
RECURSIVE Nested(_)
Nested(k) == IF k = 0 THEN VInt(1) ELSE VSlice(<<Nested(k - 1)>>)

\* deepest nesting among the streams
MaxNest == 9

Letters == <<"f", "o", "o", "b", "a", "r", "b", "a", "z", "q", "u", "x">>
Payload(n) == SubSeq(Letters, 1, n)

OK == <<"O", "K">>
ERRbad == <<"E", "R", "R", " ", "b", "a", "d">>
foo == <<"f", "o", "o">>
bar == <<"b", "a", "r">>

\* Status, Error, Integer and captured Bulk values
Scalars ==
    { VString(OK), VError(ERRbad), VString(<<>>), VInt(1000), VInt(-7), VInt(0),
      VBytes(Payload(BulkCaptureLimit)), VBytes(foo), VBytes(<<>>),
      VBytes(<<"a", CR, LF, "b">>) }

\* flat arrays of them
FlatArrays ==
    { VSlice(<<VBytes(foo), VBytes(bar)>>), VSlice(<<VString(OK), VInt(1000)>>),
      VSlice(<<VError(ERRbad)>>), VSlice(<<>>) }

\* a bulk longer than the capture limit, alone and inside an array
Oversized == VBytes(Payload(BulkCaptureLimit + 1))
WithOversized == VSlice(<<Oversized, VBytes(foo)>>)

\* an array whose first element is the empty array
HoldsEmpty == VSlice(<<VSlice(<<>>), VInt(1)>>)

\* an array inside an array, with elements before, inside and after it
Mixed == VSlice(<<VInt(1), VSlice(<<VString(OK), VBytes(foo)>>), VInt(2)>>)

\* the Integer whose value is the declared length of the oversized bulk
LengthAsInteger == VInt(BulkCaptureLimit + 1)

NestedArrays == { Nested(k) : k \in 1..MaxNest }

\* the encoding of k nested arrays, for each k
NestedStream == [k \in 1..MaxNest |-> Encode(Nested(k))]

\* every stream here is the encoding of one value
ValidValues ==
    Scalars \cup FlatArrays \cup NestedArrays
        \cup {Oversized, WithOversized, VNil, Mixed, LengthAsInteger, HoldsEmpty}

\* lines with a negative length or count, followed by one more value
NegativeBulk == <<tagBulk, "-", "5">> \o CRLF
NegativeArray == <<tagArray, "-", "1">> \o CRLF

\* streams that are no encoding of a value
Malformed ==
    { <<"X", "Y">> \o CRLF,
      <<tagInt, "1", "2", "a">> \o CRLF,
      <<tagInt>> \o CRLF,
      <<tagBulk, "x">> \o CRLF \o foo \o CRLF,
      <<tagArray, "z">> \o CRLF \o Encode(VInt(0)),
      <<tagArray, "1">> \o CRLF \o <<"?">> \o CRLF }

\* two values sent back to back
BackToBack ==
    { Encode(VString(OK)) \o Encode(VInt(1000)),
      Encode(VNil) \o Encode(VInt(1000)),
      NegativeBulk \o Encode(VString(OK)),
      Encode(VBytes(foo)) \o Encode(VSlice(<<VBytes(bar)>>)),
      Encode(Oversized) \o Encode(VString(OK)),
      Encode(VSlice(<<>>)) \o Encode(VString(OK)),
      NegativeArray \o Encode(VString(OK)) }

Inputs ==
    { Encode(v) : v \in ValidValues } \cup {NegativeBulk, NegativeArray}
        \cup Malformed \cup BackToBack

\* ------------------------------------------------------ the state machine

VARIABLES
    input,    \* the stream the reader r delivers
    avail,    \* how many of its bytes have arrived
    pos,      \* how many of its bytes r has handed out or discarded
    ndisc,    \* bytes handed to r.Discard since the last Reset
    start,    \* pos at the last Reset
    stack,    \* p.stack
    running,  \* a call of Run is in progress
    ret,      \* what the last call of Run returned, "none" before the first
    nruns,    \* calls of Run since the last Reset: 0, 1, or 2 for more
    seen,     \* avail when Run was last called
    fresh     \* the parser has not been Reset since NewParser

vars == <<input, avail, pos, ndisc, start, stack, running, ret, nruns, seen, fresh>>

crashed == ret = Panic

Init ==
    /\ input \in Inputs
    /\ avail = 0
    /\ pos = 0
    /\ ndisc = 0
    /\ start = 0
    /\ stack = ResetStack(NewParser)
    /\ running = FALSE
    /\ ret = "none"
    /\ nruns = 0
    /\ seen = 0
    /\ fresh = TRUE

\* the network delivers the next k bytes, between two calls of Run
Feed ==
    /\ ~running
    /\ \E k \in 1..(Len(input) - avail) : avail' = avail + k
    /\ UNCHANGED <<input, pos, ndisc, start, stack, running, ret, nruns, seen, fresh>>

\* Run is called
Run ==
    /\ ~running
    /\ ~crashed
    /\ running' = TRUE
    /\ nruns' = IF nruns < 2 THEN nruns + 1 ELSE 2
    /\ seen' = avail
    /\ UNCHANGED <<input, avail, pos, ndisc, start, stack, ret, fresh>>

\* the loop of Run finds only the root frame
RunReturn ==
    /\ running
    /\ Len(stack) = 1
    /\ running' = FALSE
    /\ ret' = nil
    /\ UNCHANGED <<input, avail, pos, ndisc, start, stack, nruns, seen, fresh>>

\* the loop of Run calls the top frame's closure
RunStep ==
    /\ running
    /\ Len(stack) > 1
    /\ LET q == runTop([stack |-> stack, pos |-> pos, ndisc |-> ndisc], input, avail)
       IN  /\ stack' = q.stack
           /\ pos' = q.pos
           /\ ndisc' = q.ndisc
           /\ running' = (q.err = nil)
           /\ ret' = IF q.err = nil THEN ret ELSE q.err
    /\ UNCHANGED <<input, avail, start, nruns, seen, fresh>>

\* Reset(r) with the reader the parser already reads from
Reset ==
    /\ ~running
    /\ ~crashed
    /\ stack' = ResetStack(stack)
    /\ start' = pos
    /\ ndisc' = 0
    /\ ret' = "none"
    /\ nruns' = 0
    /\ seen' = 0
    /\ fresh' = FALSE
    /\ UNCHANGED <<input, avail, pos, running>>

\* Reset(r) with a reader over another stream
ResetReader ==
    /\ ~running
    /\ ~crashed
    /\ stack' = ResetStack(stack)
    /\ input' \in Inputs
    /\ avail' = 0
    /\ pos' = 0
    /\ start' = 0
    /\ ndisc' = 0
    /\ ret' = "none"
    /\ nruns' = 0
    /\ seen' = 0
    /\ fresh' = FALSE
    /\ UNCHANGED running

Next == Feed \/ Run \/ RunReturn \/ RunStep \/ Reset \/ ResetReader

Spec == Init /\ [][Next]_vars

\* a call of Run goes through its loop without pause: an iteration that can
\* be taken is taken, and so is the return
FairSpec == Spec /\ WF_vars(RunStep) /\ WF_vars(RunReturn)

TypeOK ==
    /\ input \in Inputs
    /\ avail \in 0..Len(input)
    /\ Len(stack) >= 1

\* ------------------------------------------------------------ properties

\* a Run has returned since the last Reset, and no byte has arrived since
Returned == ~running /\ nruns >= 1 /\ seen = avail

\* the whole stream had arrived when Run was last called, and it has returned
ReturnedAfterAll == Returned /\ seen = Len(input)

\* the parser reads the stream from its first byte
AtStart(v) == input = Encode(v) /\ start = 0

\* what a freshly created parser leaves when the stream buf, all of it
\* buffered, is read from position from by one call of Run
FreshRun(buf, from) ==
    RunToReturn([stack |-> ResetStack(NewParser), pos |-> from, ndisc |-> 0],
                buf, Len(buf))

\* arrays nested this deep still decode: the innermost value's frame is the
\* (k + 2)nd of the stack
NestLimit == stackLimit - 2

Decodable == Scalars \cup FlatArrays \cup {Oversized, WithOversized, VNil}
                \cup { Nested(k) : k \in 1..NestLimit }

\* C1: every valid encoding of a Status, Error, Integer, captured Bulk or flat
\* array of those, all of it buffered before the first Run, is decoded by
\* that one call: it returns nil, only the root frame is left, and Result()
\* is the value encoded.
C1_SingleChunkDecodes ==
    \A v \in Scalars \cup FlatArrays :
        (AtStart(v) /\ ReturnedAfterAll /\ nruns = 1)
            => (ret = nil /\ Len(stack) = 1 /\ Result(stack) = v)

\* C2: however a valid encoding is split into chunks, the Run called after
\* the last chunk returns nil and Result() is what one call of Run gives when
\* the encoding arrives as a single chunk.
C2_ChunkingKeepsResult ==
    \A v \in Decodable :
        (AtStart(v) /\ ReturnedAfterAll)
            => (ret = nil /\ Result(stack) = Result(FreshRun(input, 0).stack))

\* C3: a closure that returns the reader's short-read signal ends the call of
\* Run with that signal and leaves the stack as deep as it found it, every
\* frame below the top untouched, and on top a frame of the same function
\* that goes on from the bytes already taken (nothing is given back to the
\* reader, the bytes accumulated and still to read add up as before).
C3_ShortReadKeepsState ==
    [][ (running /\ Len(stack) > 1
           /\ runTop([stack |-> stack, pos |-> pos, ndisc |-> ndisc],
                     input, avail).err = ErrShortRead)
        => /\ ~running'
           /\ ret' = ErrShortRead
           /\ Len(stack') = Len(stack)
           /\ \A i \in 1..(Len(stack) - 1) : stack'[i] = stack[i]
           /\ stack'[Len(stack)].run = stack[Len(stack)].run
           /\ stack'[Len(stack)].result = stack[Len(stack)].result
           /\ pos' >= pos
           /\ Len(stack'[Len(stack)].accum) + stack'[Len(stack)].n
                = Len(stack[Len(stack)].accum) + stack[Len(stack)].n
           /\ SubSeq(stack'[Len(stack)].accum, 1, Len(stack[Len(stack)].accum))
                = stack[Len(stack)].accum ]_vars

\* a bulk payload inside an array was cut by a short read
C3_Witness ==
    /\ ~running
    /\ ret = ErrShortRead
    /\ Len(stack) >= 3
    /\ stack[Len(stack)].run = "startParseBulkN"
    /\ stack[Len(stack)].accum # <<>>
    /\ stack[Len(stack)].n > 0

\* C4: whatever happened before a Reset (a finished parse, a suspended one, a
\* failed one), the value decoded after it is the one a freshly created
\* parser decodes from the same bytes, and as many bytes are taken.
C4_ResetIsFresh ==
    (~fresh /\ Returned /\ ret = nil /\ FreshRun(input, start).err = nil)
        => /\ stack = FreshRun(input, start).stack
           /\ pos = FreshRun(input, start).pos

\* a parser that had been Reset decoded an array of bulks over two calls of Run
C4_Witness ==
    /\ ~fresh
    /\ Returned
    /\ ret = nil
    /\ nruns = 2
    /\ input = Encode(VSlice(<<VBytes(foo), VBytes(bar)>>))
    /\ start = 0
    /\ Result(stack) = VSlice(<<VBytes(foo), VBytes(bar)>>)

\* the length line of a bulk of declared length n, and the whole encoding
BulkLine(n) == <<tagBulk>> \o Itoa(n) \o CRLF

\* the streams that begin with the bulk v
BeginsWith(v) ==
    /\ start = 0
    /\ Len(input) >= Len(Encode(v))
    /\ SubSeq(input, 1, Len(Encode(v))) = Encode(v)

\* some frame holds payload bytes of the value being read, accumulated or as
\* its result (until the tag is read, the root still has the result of the
\* parse before the Reset)
HoldsBytes(st) ==
    \/ \E i \in 2..Len(st) : st[i].accum # <<>> \/ st[i].result.t = "[]byte"
    \/ pos > start /\ st[1].result.t = "[]byte"

\* C5: a bulk of declared length n <= BulkCaptureLimit (the limit included)
\* decodes to its n payload bytes and the reader is left behind its 2-byte
\* terminator; for n > BulkCaptureLimit no frame ever holds a payload byte,
\* the result is the declared length n, and exactly the n + 2 bytes that
\* follow the length line are discarded.
C5_CaptureOrDiscard ==
    /\ \A v \in {b \in Scalars : b.t = "[]byte"} :
          (BeginsWith(v) /\ Returned /\ ret = nil)
              => /\ Result(stack) = v
                 /\ pos = Len(Encode(v))
    /\ BeginsWith(Oversized)
          => /\ ~HoldsBytes(stack)
             /\ ndisc \in {0, Len(Oversized.s) + 2}
             /\ (Returned /\ ret = nil)
                   => /\ Result(stack) = VInt(Len(Oversized.s))
                      /\ ndisc = Len(Oversized.s) + 2
                      /\ pos = Len(BulkLine(Len(Oversized.s))) + Len(Oversized.s) + 2
    /\ (AtStart(WithOversized) /\ Returned /\ ret = nil)
          => /\ Result(stack) = VSlice(<<VInt(Len(Oversized.s)), VBytes(foo)>>)
             /\ pos = Len(input)

\* an oversized bulk was skipped and the captured bulk after it decoded
C5_Witness ==
    /\ AtStart(WithOversized)
    /\ Returned
    /\ ret = nil
    /\ Result(stack) = VSlice(<<VInt(BulkCaptureLimit + 1), VBytes(foo)>>)

\* the streams that begin with a bulk of negative length
NegativeBulks ==
    { Encode(VNil), NegativeBulk, Encode(VNil) \o Encode(VInt(1000)),
      NegativeBulk \o Encode(VString(OK)) }

\* C6: a bulk of negative declared length decodes to the absent bulk: Run
\* returns nil with only the root frame left and a nil result, and no byte
\* after the length line is read or discarded.
C6_NegativeBulkIsNil ==
    (input \in NegativeBulks /\ start = 0)
        => /\ pos <= 5
           /\ ndisc = 0
           /\ ret \in {"none", ErrShortRead, nil}
           /\ (Returned /\ seen >= 5)
                 => (ret = nil /\ Len(stack) = 1 /\ Result(stack) = VNil /\ pos = 5)

\* the absent bulk was decoded with another value buffered behind it
C6_Witness ==
    /\ input = NegativeBulk \o Encode(VString(OK))
    /\ start = 0
    /\ avail = Len(input)
    /\ Returned
    /\ ret = nil
    /\ pos = 5

\* C7: an array of declared count 0 decodes to the empty sequence as soon as
\* its count line is consumed: Run returns nil, only the root frame is left,
\* Result() is an empty array and no further byte is read or waited for.
C7_EmptyArray ==
    (start = 0 /\ Returned /\ seen >= 4
       /\ input \in {Encode(VSlice(<<>>)), Encode(VSlice(<<>>)) \o Encode(VString(OK))})
        => (ret = nil /\ Len(stack) = 1 /\ Result(stack) = VSlice(<<>>) /\ pos = 4)

\* C8: an array of negative declared count decodes to the absent array: Run
\* returns nil, only the root frame is left, the result is nil, and nothing
\* crashes or fails.
C8_NegativeArrayIsNil ==
    (start = 0 /\ input \in {NegativeArray, NegativeArray \o Encode(VString(OK))})
        => /\ ret \in {"none", ErrShortRead, nil}
           /\ (Returned /\ seen >= 5)
                 => (ret = nil /\ Len(stack) = 1 /\ Result(stack) = VNil)

\* C9 as claimed: k arrays nested in one another decode for every k up to
\* stackLimit, and k = stackLimit + 1 gives RecursionLimitErr, however the
\* input is split.
C9_NestingUpToStackLimit ==
    \A k \in 1..MaxNest :
        (input = NestedStream[k] /\ start = 0 /\ ReturnedAfterAll)
            => /\ k <= stackLimit => (ret = nil /\ Result(stack) = Nested(k))
               /\ k = stackLimit + 1 => ret = RecursionLimitErr

\* C9 as the code has it: the innermost value of k nested arrays is read with
\* k + 2 frames on the stack, so k arrays decode for every k <= stackLimit - 2
\* and from k = stackLimit - 1 on Run returns RecursionLimitErr, however the
\* input is split.
C9_NestingUpToNestLimit ==
    \A k \in 1..MaxNest :
        (input = NestedStream[k] /\ start = 0)
            => /\ ret \in {"none", ErrShortRead, nil, RecursionLimitErr}
               /\ k <= NestLimit => ret # RecursionLimitErr
               /\ k > NestLimit => ret # nil
               /\ ReturnedAfterAll =>
                     IF k <= NestLimit
                     THEN ret = nil /\ Len(stack) = 1 /\ Result(stack) = Nested(k)
                     ELSE ret = RecursionLimitErr

\* one level too many was refused by the second call of Run
C9_Witness ==
    /\ AtStart(Nested(NestLimit + 1))
    /\ Returned
    /\ nruns = 2
    /\ ret = RecursionLimitErr

Tags == {tagStatus, tagError, tagInt, tagBulk, tagArray}

\* a signed decimal integer: an optional sign and at least one digit
IsSignedDecimal(s) ==
    LET d == IF s # <<>> /\ s[1] \in {"+", "-"} THEN Tail(s) ELSE s
    IN  d # <<>> /\ \A i \in 1..Len(d) : IsDigit(d[i])

TopRun == stack[Len(stack)].run

\* C10: the call of Run that reads a first byte which is no tag returns
\* ProtocolErr, and the call that reads an integer, bulk-length or
\* array-count line which is no signed decimal integer returns an error that
\* is neither nil nor the short-read signal.
C10_MalformedIsAnError ==
    [][ /\ (running /\ TopRun = "startParseValue" /\ Len(stack) <= stackLimit
              /\ Buffered(avail, pos) >= 1 /\ input[pos + 1] \notin Tags)
            => (~running' /\ ret' = ProtocolErr)
        /\ (running /\ TopRun = "startParseInt"
              /\ ReadLine(input, avail, pos).err = nil
              /\ ~IsSignedDecimal(ReadLine(input, avail, pos).out))
            => (~running' /\ ret' \notin {nil, ErrShortRead, "none"}) ]_vars

\* an array count that is no number was refused
C10_Witness ==
    /\ input = <<tagArray, "z">> \o CRLF \o Encode(VInt(0))
    /\ start = 0
    /\ ~running
    /\ ret = ErrSyntax
    /\ Len(stack) = 3

\* what the parser is to give for the value v: the value itself, with every
\* bulk longer than the capture limit replaced by its declared length
RECURSIVE Decoded(_)
Decoded(v) ==
    CASE v.t = "[]byte" /\ Len(v.s) > BulkCaptureLimit -> VInt(Len(v.s))
      [] v.t = "[]interface{}" -> VSlice([i \in 1..Len(v.a) |-> Decoded(v.a[i])])
      [] OTHER -> v

\* the well-formed encodings among the streams, each with its value
WellFormed ==
    { [enc |-> Encode(v), val |-> Decoded(v)] : v \in ValidValues }
        \cup { [enc |-> NegativeBulk, val |-> VNil],
               [enc |-> NegativeArray, val |-> VNil] }

\* the bytes taken from the reader since the Reset
Taken == SubSeq(input, start + 1, IF pos <= Len(input) THEN pos ELSE Len(input))

\* one whole well-formed value has been decoded and is the root's result
DecodedOne ==
    \E w \in WellFormed :
        pos = start + Len(w.enc) /\ Taken = w.enc /\ stack[1].result = w.val

\* C11: once a frame's closure has run after a Reset, between two calls of
\* Run only the root frame is left if and only if one whole well-formed value
\* has been decoded since that Reset and is the root frame's result.
C11_DepthOneIffDecoded ==
    (start = 0 /\ pos > 0 /\ ~running) => (Len(stack) = 1 <=> DecodedOne)

\* the frame on top of the stack
Top == stack[Len(stack)]

\* a payload-reading frame is on top: its bulk's declared length, and where
\* its payload begins in the stream
Declared == Len(Top.accum) + Top.n
PayloadStart == pos - Len(Top.accum)

\* C12: while a payload-reading frame is on top, the bytes accumulated and
\* the count still requested add up to the declared length of the bulk (the
\* length line ends where the payload begins) and the accumulated bytes are
\* the first bytes of the payload, in order, the reader standing right behind
\* them; a short read appends the bytes buffered, discards exactly that many
\* and reinstalls the frame with the remainder as its count.
C12_ShortReadKeepsCount ==
    /\ [](TopRun = "startParseBulkN"
            => /\ Top.n >= 0
               /\ PayloadStart >= Len(BulkLine(Declared))
               /\ SubSeq(input, PayloadStart - Len(BulkLine(Declared)) + 1, PayloadStart)
                    = BulkLine(Declared)
               /\ Top.accum = SubSeq(input, PayloadStart + 1, pos))
    /\ [][ (running /\ TopRun = "startParseBulkN" /\ Buffered(avail, pos) < Top.n)
           => /\ ~running'
              /\ ret' = ErrShortRead
              /\ Len(stack') = Len(stack)
              /\ stack'[Len(stack)].run = "startParseBulkN"
              /\ stack'[Len(stack)].accum = Top.accum \o SubSeq(input, pos + 1, avail)
              /\ stack'[Len(stack)].n = Top.n - Buffered(avail, pos)
              /\ pos' = pos + Buffered(avail, pos)
              /\ ndisc' = ndisc + Buffered(avail, pos) ]_vars

\* a bulk as long as the capture limit has four of its bytes accumulated
\* after two short reads
C12_Witness ==
    /\ AtStart(VBytes(Payload(BulkCaptureLimit)))
    /\ ~running
    /\ TopRun = "startParseBulkN"
    /\ Top.accum = Payload(4)
    /\ Top.n = BulkCaptureLimit - 4
    /\ ndisc = 4
    /\ nruns = 2

\* the streams of two well-formed values sent back to back
Second ==
    WellFormed \cup { [enc |-> Encode(v), val |-> Decoded(v)] : v \in {VSlice(<<VBytes(bar)>>)} }

ValuePairs ==
    { w \in WellFormed \X Second : w[1].enc \o w[2].enc \in BackToBack }

\* C13: the reader never moves backwards; when Run returns nil for the first
\* of two values sent back to back the reader has advanced by exactly the
\* length of its encoding and the root holds its result, and after a Reset
\* there the next Run that returns nil has advanced to the end of the second
\* encoding and the root holds the second result.
C13_ExactByteAccounting ==
    /\ [](\A w \in ValuePairs :
            (input = w[1].enc \o w[2].enc /\ ~running /\ ret = nil) =>
                /\ start = 0 =>
                     pos = Len(w[1].enc) /\ Result(stack) = w[1].val
                /\ start = Len(w[1].enc) =>
                     pos = Len(input) /\ Result(stack) = w[2].val)
    /\ [][ ~ResetReader => (pos' >= pos /\ ndisc <= pos - start) ]_vars

\* arrays of declared count n >= 1, nested no deeper than decodes
Arrays ==
    { v \in FlatArrays : Len(v.a) >= 1 }
        \cup {WithOversized, Mixed, HoldsEmpty}
        \cup { Nested(k) : k \in 1..NestLimit }

IsPrefix(s, t) == Len(s) <= Len(t) /\ s = SubSeq(t, 1, Len(s))

\* the decoded arrays found d levels inside v
RECURSIVE ArraysAt(_, _)
ArraysAt(v, d) ==
    IF v.t # "[]interface{}" THEN {}
    ELSE IF d = 0 THEN {Decoded(v)}
    ELSE UNION { ArraysAt(v.a[i], d - 1) : i \in 1..Len(v.a) }

\* C14: an array of declared count n >= 1 decodes to the sequence of its n
\* decoded elements in order; while it is decoded every sequence collected in
\* a result slot is a prefix of the array of that nesting level (the i-th
\* frame collects the array i - 1 levels inside the outermost one), and the
\* sequences collected below are unchanged while an inner array is decoded.
C14_ArrayAccumulation ==
    /\ [](\A v \in Arrays :
            /\ (AtStart(v) /\ ReturnedAfterAll)
                 => (ret = nil /\ Result(stack) = Decoded(v)
                       /\ Len(Result(stack).a) = Len(v.a))
            /\ (AtStart(v) /\ pos > 0)
                 => \A i \in 1..Len(stack) :
                        stack[i].result.t = "[]interface{}"
                            => \E a \in ArraysAt(v, i - 1) :
                                   IsPrefix(stack[i].result.a, a.a))
    /\ [][ (running /\ Len(stack) >= 3)
           => \A i \in 1..(Len(stack) - 2) : stack'[i] = stack[i] ]_vars

\* where the value one level too deep begins in a stream of nested arrays
TooDeepAt == Len(NestedStream[NestLimit + 1]) - Len(Encode(Nested(0)))

\* C15: once Run has returned RecursionLimitErr, until a Reset every step
\* leaves the stack and the reader where they are and every return of Run is
\* RecursionLimitErr again, whatever bytes arrive; the frame that failed is a
\* decode-one-value frame above the ceiling, still on top, and in a stream of
\* nested arrays read from its first byte the reader stands at the first byte
\* of the value that is too deep.
C15_RecursionLimitIsPermanent ==
    /\ [](ret = RecursionLimitErr
            => /\ TopRun = "startParseValue"
               /\ Len(stack) > stackLimit
               /\ \A k \in 1..MaxNest :
                      (input = NestedStream[k] /\ start = 0) => pos = TooDeepAt)
    /\ [][ (ret = RecursionLimitErr /\ ret' # "none")
           => (ret' = RecursionLimitErr /\ pos' = pos /\ stack' = stack) ]_vars

\* Run is called again after it returned RecursionLimitErr, with bytes
\* buffered behind the value that is too deep
C15_Witness ==
    /\ input = NestedStream[NestLimit + 2]
    /\ start = 0
    /\ running
    /\ ret = RecursionLimitErr
    /\ seen = Len(input)
    /\ pos < seen

\* the fatal errors of a malformed stream
Fatal == {ProtocolErr, ErrSyntax}

\* C16: once Run has returned ProtocolErr or the error of a numeric parse,
\* until a Reset no return of Run is nil and no step changes the result.
C16_ProtocolErrorsAreFatal ==
    [][ (ret \in Fatal /\ ret' # "none")
        => (ret' # nil /\ Result(stack') = Result(stack)) ]_vars

\* C17: the stack holds at least the root frame and at most stackLimit + 1
\* frames; the root frame is the lowest one and the only one without a
\* closure, so that Run never calls it; and a decode-one-value frame takes a
\* byte from the reader only when the stack is no deeper than stackLimit.
C17_StackDepthIsBounded ==
    /\ [](/\ 1 <= Len(stack)
          /\ Len(stack) <= stackLimit + 1
          /\ stack[1].run = ""
          /\ \A i \in 2..Len(stack) : stack[i].run # "")
    /\ [][ (running /\ TopRun = "startParseValue" /\ pos' # pos)
           => Len(stack) <= stackLimit ]_vars

\* the stack is as deep as it gets, in a stream of arrays nested deeper than
\* the ceiling allows
C17_Witness ==
    /\ input = NestedStream[MaxNest]
    /\ Len(stack) = stackLimit + 1
    /\ TopRun = "startParseValue"
    /\ pos < avail

\* how a call of Run may end: complete, in want of bytes, or with a fatal
\* error
Returns == {nil, ErrShortRead, ProtocolErr, ErrSyntax, RecursionLimitErr}

\* C18: every call of Run returns, with nil, the short-read signal or a fatal
\* error. No byte arrives while Run is running (Feed waits for its return),
\* so the call works on a fixed buffer.
C18_RunReturns == running ~> (~running /\ ret \in Returns)

\* the RESP type a value on the wire belongs to
Kind(v) ==
    CASE v.t = "string" -> "Status"
      [] v.t = "error" -> "Error"
      [] v.t = "int" -> "Integer"
      [] v.t = "[]byte" -> "Bulk"
      [] v.t = "nil" -> "Bulk"
      [] v.t = "[]interface{}" -> "Array"

\* C19: when a valid encoding has been decoded, Result() differs from what
\* the valid encoding of any value of another RESP type decodes to.
C19_ResultsKeepTypesApart ==
    \A v \in ValidValues :
        (AtStart(v) /\ ~running /\ ret = nil /\ pos = Len(input))
            => \A w \in ValidValues :
                   Kind(w) # Kind(v) => Result(stack) # Decoded(w)

====
